---- MODULE Spec2Model ----
(***************************************************************************)
(* Cart / wishlist state containers of the Skillverse front-end            *)
(* (Context/CartContext: CartProvider, WishlistProvider), their            *)
(* localStorage persistence and their toast notifications.                 *)
(*                                                                         *)
(* The providers keep their items in React useState hooks.  A call of      *)
(* setItems(updater) does not change the state at once: React puts the     *)
(* updater in the hook's queue and applies the queue when it renders the   *)
(* provider, after the event handler that issued the calls has returned.   *)
(* The one exception is React's eager path: when the hook's fiber has no   *)
(* pending work (no lanes on the fiber or its alternate) React runs the    *)
(* updater synchronously inside setItems, against the last rendered state. *)
(* The `added` flag of addToCart / addToWishlist is written by the updater *)
(* and read right after setItems returns, so what it holds depends on      *)
(* which of the two paths React took; the model keeps both.                *)
(***************************************************************************)
EXTENDS Integers, Sequences, FiniteSets

(***************************************************************************)
(* Bounds of the model                                                     *)
(***************************************************************************)
\* largest quantity an entry reaches (addToCart is not called beyond it)
MaxQty == 2
\* largest number of provider calls one event handler issues
MaxBatch == 2

(***************************************************************************)
(* JavaScript values of the price and quantity fields.  A number is kept   *)
(* as a fixed-point integer counting units of 1/Den, so that 1.5 is        *)
(* representable; "undef" is a missing field, "str" a non-numeric string,  *)
(* "nan" the result of a failed numeric conversion.                        *)
(***************************************************************************)
Den == 2

Num(n) == [k |-> "num", v |-> n]
Whole(n) == Num(n * Den)
Undef == [k |-> "undef", v |-> 0]
Str == [k |-> "str", v |-> 0]
NaN == [k |-> "nan", v |-> 0]
Null == [k |-> "null", v |-> 0]

\* Number(x)
Number(x) == IF x.k = "num" THEN x ELSE IF x.k = "null" THEN Num(0) ELSE NaN

\* x || 0 for a number x: NaN and 0 are falsy
OrZero(x) == IF x.k = "num" /\ x.v # 0 THEN x ELSE Num(0)

\* a + b, a * b and a > 0 on numbers; NaN propagates through + and *
Plus(a, b) == IF a.k = "num" /\ b.k = "num" THEN Num(a.v + b.v) ELSE NaN
Times(a, b) == IF a.k = "num" /\ b.k = "num" THEN Num((a.v * b.v) \div Den) ELSE NaN
Positive(x) == x.k = "num" /\ x.v > 0

\* JSON.stringify / JSON.parse of one field value: NaN is written as null
ToJSON(x) == IF x.k = "nan" THEN Null ELSE x

(***************************************************************************)
(* Inputs                                                                  *)
(***************************************************************************)
Ids == {1, 2}

\* the static course catalog: one record per id
Catalog == { [id |-> i, title |-> "course", price |-> Whole(10 * i)] : i \in Ids }

\* any payload a consumer may pass: a catalog record, or a record with the
\* same id and other fields (missing or non-numeric price)
Payloads ==
  Catalog \cup
  { [id |-> i, title |-> "other", price |-> IF i = 1 THEN Undef ELSE Str] : i \in Ids }

\* quantities the cart icon passes (integers)
IntQuantities == { Whole(0), Whole(1), Whole(MaxQty) }

\* any quantity argument: negative, zero, fractional, integer, missing
AnyQuantities == { Whole(0 - 1), Whole(0), Num(Den + 1), Whole(MaxQty), Undef }

NoProduct == [id |-> 0, title |-> "", price |-> Undef]

VARIABLES
  cartItems,      \* CartProvider: items of the last render
  wishlistItems,  \* WishlistProvider: items of the last render
  cartCalls,      \* cart calls of the current (or last) event handler, with their queued updaters
  wishlistCalls,  \* wishlist calls of the current (or last) event handler
  pending,        \* a render is scheduled: queued updaters are not applied yet
  cartLanes,      \* the cart hook's fiber (or its alternate) has lanes: no eager path
  wishlistLanes,  \* the same for the wishlist hook
  store,          \* localStorage: key -> what the key holds
  storage,        \* the medium: "ok", "full" (writes throw) or "blocked" (any access throws)
  closed,         \* the application is not running (the page is closed)
  crashed,        \* an exception escaped a provider
  addOnly,        \* history: only addToCart has been called on the cart so far
  addCount,       \* history: while addOnly, number of addToCart calls per id
  hook,           \* what the last useCart() / useWishlist() call of a component did
  other,          \* a second instance of the application on the same store: its items
  navbar,         \* Navbar: its open panels, the body's overflow style, its session state
  authStore,      \* localStorage: the keys "user" and "isAuthenticated"
  heldAtStart     \* history: the shapes the two keys held when the session started

\* what lives outside the two providers
uiVars == << hook, other, navbar, authStore >>

vars == << cartItems, wishlistItems, cartCalls, wishlistCalls, pending,
           cartLanes, wishlistLanes, store, storage, closed, crashed,
           addOnly, addCount, uiVars, heldAtStart >>

(***************************************************************************)
(* Pure helpers of the providers                                           *)
(***************************************************************************)
HasId(items, id) == \E i \in DOMAIN items : items[i].id = id

\* prev.findIndex((i) => i.id === id): the first index, 0 when there is none
findIndex(items, id) ==
  IF HasId(items, id)
  THEN CHOOSE i \in DOMAIN items :
         /\ items[i].id = id
         /\ \A j \in DOMAIN items : items[j].id = id => i <= j
  ELSE 0

RECURSIVE filter(_, _, _)
\* prev.filter(keep), keep given as the set of kept indices of the original
filter(items, keepIdx, from) ==
  IF from > Len(items) THEN << >>
  ELSE IF from \in keepIdx
       THEN << items[from] >> \o filter(items, keepIdx, from + 1)
       ELSE filter(items, keepIdx, from + 1)

(***************************************************************************)
(* State updaters passed to setItems                                       *)
(***************************************************************************)
\* variant: no look-up of the id, every call appends
addToCartAlwaysAppend(prev, product) ==
  Append(prev, [id |-> product.id, title |-> product.title,
                price |-> product.price, quantity |-> Whole(1)])

\* variant: the increment spreads the new payload over the stored entry
addToCartOverwrite(prev, product) ==
  LET idx == findIndex(prev, product.id) IN
  IF idx > 0
  THEN [prev EXCEPT ![idx] =
          [id |-> product.id, title |-> product.title, price |-> product.price,
           quantity |-> Plus(OrZero(Number(prev[idx].quantity)), Whole(1))]]
  ELSE Append(prev, [id |-> product.id, title |-> product.title,
                     price |-> product.price, quantity |-> Whole(1)])

\* variant: the incremented entry is taken out and put back at the end
addToCartMovesToEnd(prev, product) ==
  LET idx == findIndex(prev, product.id) IN
  IF idx > 0
  THEN Append(filter(prev, { i \in DOMAIN prev : i # idx }, 1),
              [prev[idx] EXCEPT !.quantity =
                 Plus(OrZero(Number(prev[idx].quantity)), Whole(1))])
  ELSE Append(prev, [id |-> product.id, title |-> product.title,
                     price |-> product.price, quantity |-> Whole(1)])

\* addToCart: (prev) => ... increment the existing entry, or append a new one
addToCartUpdater(prev, product) ==
  LET idx == findIndex(prev, product.id) IN
  IF idx > 0
  THEN [prev EXCEPT ![idx] =
          [prev[idx] EXCEPT !.quantity =
             Plus(OrZero(Number(prev[idx].quantity)), Whole(1))]]
  ELSE Append(prev, [id |-> product.id, title |-> product.title,
                     price |-> product.price, quantity |-> Whole(1)])

\* variant: the filter keeps the matching entries (=== for !==)
removeKeepsMatch(prev, id) ==
  filter(prev, { i \in DOMAIN prev : prev[i].id = id }, 1)

\* variant: the id is taken for a position (splice(id - 1, 1))
removeByPosition(prev, id) ==
  filter(prev, { i \in DOMAIN prev : i # id }, 1)

\* removeFromCart / removeFromWishlist: prev.filter((i) => i.id !== id)
removeUpdater(prev, id) ==
  filter(prev, { i \in DOMAIN prev : prev[i].id # id }, 1)

\* variant: only the entry of the id is tested for a positive quantity
updateQuantityTargetOnly(prev, id, quantity) ==
  LET mapped == [i \in DOMAIN prev |->
                   IF prev[i].id = id
                   THEN [prev[i] EXCEPT !.quantity = Number(quantity)]
                   ELSE prev[i]]
  IN filter(mapped, { i \in DOMAIN mapped :
                        mapped[i].id # id \/ Positive(Number(mapped[i].quantity)) }, 1)

\* updateQuantity: prev.map(set the quantity of id).filter(quantity > 0)
updateQuantityUpdater(prev, id, quantity) ==
  LET mapped == [i \in DOMAIN prev |->
                   IF prev[i].id = id
                   THEN [prev[i] EXCEPT !.quantity = Number(quantity)]
                   ELSE prev[i]]
  IN filter(mapped, { i \in DOMAIN mapped : Positive(Number(mapped[i].quantity)) }, 1)

\* variant: no "already there" check
addToWishlistAlwaysAppend(prev, product) == Append(prev, product)

\* addToWishlist: prev when the id is there already, else prev with product appended
addToWishlistUpdater(prev, product) ==
  IF HasId(prev, product.id) THEN prev ELSE Append(prev, product)

\* one queued update applied to a state: setItems(updater) or setItems([])
reduce(items, call) ==
  CASE call.op = "addToCart" -> addToCartUpdater(items, call.product)
    [] call.op = "removeFromCart" -> removeUpdater(items, call.id)
    [] call.op = "updateQuantity" -> updateQuantityUpdater(items, call.id, call.quantity)
    [] call.op = "clearCart" -> << >>
    [] call.op = "addToWishlist" -> addToWishlistUpdater(items, call.product)
    [] call.op = "removeFromWishlist" -> removeUpdater(items, call.id)

\* variant: each update built from the items of the last render (setItems(value)
\* in place of setItems(updater)), so only the last one of a batch counts
processQueueStale(items, calls, upto) ==
  IF upto = 0 \/ ~calls[upto].queued THEN items ELSE reduce(items, calls[upto])

RECURSIVE processQueue(_, _, _)
\* React applies the queued updates of a hook in call order; `upto` calls of the handler
processQueue(items, calls, upto) ==
  IF upto = 0 THEN items
  ELSE LET before == processQueue(items, calls, upto - 1) IN
       IF calls[upto].queued THEN reduce(before, calls[upto]) ELSE before

\* variant: a change is a change of length
lengthChanged(items, calls, upto) ==
  Len(processQueue(items, calls, upto)) # Len(items)

\* whether applying the queue gives a new array (Object.is(next, prev) is false):
\* every updater but addToWishlist's "already exists" branch builds a new array
RECURSIVE newReference(_, _, _)
newReference(items, calls, upto) ==
  IF upto = 0 THEN FALSE
  ELSE LET before == processQueue(items, calls, upto - 1) IN
       \/ newReference(items, calls, upto - 1)
       \/ /\ calls[upto].queued
          /\ ~(calls[upto].op = "addToWishlist" /\ HasId(before, calls[upto].product.id))

(***************************************************************************)
(* Derived helpers exposed to consumers (closures over the rendered items) *)
(***************************************************************************)
itemQuantity(i) == OrZero(Number(i.quantity))

\* variant: no "|| 0" on the price
itemPriceNoCoercion(i) == Times(Number(i.price), OrZero(Number(i.quantity)))

itemPrice(i) == Times(OrZero(Number(i.price)), OrZero(Number(i.quantity)))

RECURSIVE reduceQuantity(_, _)
\* items.reduce((s, i) => s + (Number(i.quantity) || 0), 0), a left fold
reduceQuantity(items, upto) ==
  IF upto = 0 THEN Num(0)
  ELSE Plus(reduceQuantity(items, upto - 1), itemQuantity(items[upto]))

RECURSIVE reducePrice(_, _)
\* items.reduce((s, i) => s + price * quantity, 0), a left fold
reducePrice(items, upto) ==
  IF upto = 0 THEN Num(0)
  ELSE Plus(reducePrice(items, upto - 1), itemPrice(items[upto]))

getTotalItems(items) == reduceQuantity(items, Len(items))
getTotalPrice(items) == reducePrice(items, Len(items))
isInCart(id) == HasId(cartItems, id)
isInWishlist(id) == HasId(wishlistItems, id)
wishlistTotalItems == Len(wishlistItems)

(***************************************************************************)
(* Persistence                                                             *)
(***************************************************************************)
\* variant: only the id and the quantity of an entry are written
serializeSlim(items) ==
  [i \in DOMAIN items |-> [items[i] EXCEPT !.title = "", !.price = Undef]]

\* JSON.stringify of the items: every field through ToJSON
serialize(items) ==
  [i \in DOMAIN items |->
     IF "quantity" \in DOMAIN items[i]
     THEN [items[i] EXCEPT !.price = ToJSON(@), !.quantity = ToJSON(@)]
     ELSE [items[i] EXCEPT !.price = ToJSON(@)]]

\* what a key of localStorage holds, by the shape of its text:
\*   "absent"  no such key              "corrupt" text that is not JSON
\*   "null"    the JSON null            "zero"    a falsy JSON value (0, "", false)
\*   "number"  a non-zero number        "string"  a non-empty string
\*   "object"  an object whose items is not an array
\*   "record"  an object whose items is an array (what safeSet writes)
\*   "array"   a top-level array
Stored(shape, items) == [shape |-> shape, items |-> items]
Absent == Stored("absent", << >>)
JsNull == Stored("null", << >>)

Returned(value) == [threw |-> FALSE, value |-> value]
Thrown == [threw |-> TRUE, value |-> JsNull]

\* localStorage.getItem(key): the text of the key (null for an absent key);
\* a blocked medium throws
getItem(st, status, key) ==
  IF status = "blocked" THEN Thrown ELSE Returned(st[key])

\* JSON.parse(raw): throws on text that is not JSON
JSONparse(raw) == IF raw.shape = "corrupt" THEN Thrown ELSE Returned(raw)

\* variant: no try/catch around the read
safeGetNoCatch(st, status, key) ==
  LET raw == getItem(st, status, key)
  IN IF raw.threw THEN Thrown
     ELSE IF raw.value.shape = "absent" THEN Returned(JsNull)
     ELSE JSONparse(raw.value)

\* safeGet(key): null when the key is absent, and null (after a warning) when
\* the access or the parse throws
safeGet(st, status, key) ==
  LET raw == getItem(st, status, key)
      parsed == JSONparse(raw.value)
  IN IF raw.threw THEN Returned(JsNull)
     ELSE IF raw.value.shape = "absent" THEN Returned(JsNull)
     ELSE IF parsed.threw THEN Returned(JsNull)
     ELSE Returned(parsed.value)

\* variant: the bare top-level array is not accepted
initialItemsRecordOnly(saved) ==
  IF saved.shape \in {"null", "zero"} THEN << >>
  ELSE IF saved.shape = "record" THEN saved.items
  ELSE << >>

\* the useState initializer of both providers, on what safeGet returned
initialItems(saved) ==
  IF saved.shape \in {"null", "zero"} THEN << >>
  ELSE IF saved.shape = "record" THEN saved.items
  ELSE IF saved.shape = "array" THEN saved.items
  ELSE << >>

\* localStorage.setItem(key, text): throws unless the medium takes the write
setItem(st, status, key, value) ==
  IF status = "ok"
  THEN [threw |-> FALSE, store |-> [st EXCEPT ![key] = value]]
  ELSE [threw |-> TRUE, store |-> st]

\* variant: no try/catch around the write
safeSetNoCatch(st, status, key, items) ==
  setItem(st, status, key, Stored("record", serialize(items)))

\* variant: both providers write under the key 'cart'
safeSetSharedKey(st, status, key, items) ==
  LET written == setItem(st, status, "cart", Stored("record", serialize(items)))
  IN [threw |-> FALSE, store |-> written.store]

\* variant: the items are written as a bare top-level sequence
safeSetBareArray(st, status, key, items) ==
  LET written == setItem(st, status, key, Stored("array", serialize(items)))
  IN [threw |-> FALSE, store |-> written.store]

\* safeSet(key, { items, updatedAt }): a write that throws is warned about and
\* dropped; the timestamp is not modelled
safeSet(st, status, key, items) ==
  LET written == setItem(st, status, key, Stored("record", serialize(items)))
  IN [threw |-> FALSE, store |-> written.store]

(***************************************************************************)
(* Calls of the providers' operations by an event handler                  *)
(***************************************************************************)
call(op, id, product, quantity, notified, queued) ==
  [op |-> op, id |-> id, product |-> product, quantity |-> quantity,
   notified |-> notified, queued |-> queued]

\* the calls the running handler has issued so far: a handler that starts
\* after the last render starts from no calls
handlerCalls(calls) == IF pending THEN calls ELSE << >>

\* the handlers that call updateQuantity or clearCart make that one call only
\* (the cart icon's quantity buttons); add and remove calls come in batches
\* (the wishlist page's "move to cart" and "add all to cart")
singleCall(c) == c.op \in {"updateQuantity", "clearCart"}

handlerOpen ==
  /\ ~closed
  /\ Len(handlerCalls(cartCalls)) + Len(handlerCalls(wishlistCalls)) < MaxBatch
  /\ \A i \in DOMAIN handlerCalls(cartCalls) : ~singleCall(cartCalls[i])

handlerStart == ~closed /\ ~pending

withinMaxQty(items) ==
  \A i \in DOMAIN items :
    items[i].quantity.k = "num" => items[i].quantity.v <= MaxQty * Den

noCount == [i \in Ids |-> 0]

\* setItems(update) on the cart hook: the update is queued and a render scheduled
enqueueCart(c) ==
  /\ cartCalls' = Append(handlerCalls(cartCalls), c)
  /\ wishlistCalls' = handlerCalls(wishlistCalls)
  /\ pending' = TRUE
  /\ cartLanes' = TRUE
  /\ UNCHANGED << uiVars, heldAtStart, cartItems, wishlistItems, wishlistLanes, store, storage,
                  closed, crashed >>

\* setItems(update) on the wishlist hook
enqueueWishlist(c) ==
  /\ wishlistCalls' = Append(handlerCalls(wishlistCalls), c)
  /\ cartCalls' = handlerCalls(cartCalls)
  /\ UNCHANGED << uiVars, heldAtStart, cartItems, wishlistItems, cartLanes, store, storage, closed,
                  crashed, addOnly, addCount >>

\* addToCart(product): `added` is true only if the updater has run inside setItems
\* (the eager path) and took its "new item" branch; the toast follows `added`
addToCart(product) ==
  LET eager == ~cartLanes
      added == eager /\ ~HasId(cartItems, product.id)
      c == call("addToCart", product.id, product, Undef, IF added THEN 1 ELSE 0, TRUE)
      after == Append(handlerCalls(cartCalls), c)
  IN /\ handlerOpen
     /\ withinMaxQty(processQueue(cartItems, after, Len(after)))
     /\ enqueueCart(c)
     /\ addOnly' = addOnly
     /\ addCount' = IF addOnly THEN [addCount EXCEPT ![product.id] = @ + 1] ELSE addCount

\* variant: the toast only when the id is in the cart
removeFromCartGuarded(id) ==
  /\ handlerOpen
  /\ enqueueCart(call("removeFromCart", id, NoProduct, Undef,
                      IF HasId(cartItems, id) THEN 1 ELSE 0, TRUE))
  /\ addOnly' = FALSE
  /\ addCount' = noCount

\* removeFromCart(id): queue the filter, then toast.error, whatever the cart holds
removeFromCart(id) ==
  /\ handlerOpen
  /\ enqueueCart(call("removeFromCart", id, NoProduct, Undef, 1, TRUE))
  /\ addOnly' = FALSE
  /\ addCount' = noCount

\* updateQuantity(id, quantity): queue the map + filter, no toast
updateQuantity(id, quantity) ==
  /\ handlerStart
  /\ enqueueCart(call("updateQuantity", id, NoProduct, quantity, 0, TRUE))
  /\ addOnly' = FALSE
  /\ addCount' = noCount

\* variant: the toast only when the cart holds something
clearCartNonEmpty ==
  /\ handlerStart
  /\ enqueueCart(call("clearCart", 0, NoProduct, Undef,
                      IF cartItems = << >> THEN 0 ELSE 1, TRUE))
  /\ addOnly' = FALSE
  /\ addCount' = noCount

\* clearCart(): setItems([]), then toast.success
clearCart ==
  /\ handlerStart
  /\ enqueueCart(call("clearCart", 0, NoProduct, Undef, 1, TRUE))
  /\ addOnly' = FALSE
  /\ addCount' = noCount

\* addToWishlist(product): on the eager path an "already exists" result is the
\* state itself, and React drops the update without scheduling a render
addToWishlist(product) ==
  LET eager == ~wishlistLanes
      exists == HasId(wishlistItems, product.id)
      added == eager /\ ~exists
      bailout == eager /\ exists
      c == call("addToWishlist", product.id, product, Undef,
                IF added THEN 1 ELSE 0, ~bailout)
  IN /\ handlerOpen
     /\ enqueueWishlist(c)
     /\ pending' = (pending \/ ~bailout)
     /\ wishlistLanes' = (wishlistLanes \/ ~bailout)

\* removeFromWishlist(id): queue the filter, then toast.error
removeFromWishlist(id) ==
  /\ handlerOpen
  /\ enqueueWishlist(call("removeFromWishlist", id, NoProduct, Undef, 1, TRUE))
  /\ pending' = TRUE
  /\ wishlistLanes' = TRUE

(***************************************************************************)
(* React renders the providers: the queued updates are applied in order,   *)
(* and the persist effects run for the items that changed.                 *)
(***************************************************************************)
render ==
  LET nextCart == processQueue(cartItems, cartCalls, Len(cartCalls))
      nextWishlist == processQueue(wishlistItems, wishlistCalls, Len(wishlistCalls))
      cartChanged == newReference(cartItems, cartCalls, Len(cartCalls))
      wishlistChanged == newReference(wishlistItems, wishlistCalls, Len(wishlistCalls))
      wishlistQueued == \E i \in DOMAIN wishlistCalls : wishlistCalls[i].queued
      set1 == IF cartChanged THEN safeSet(store, storage, "cart", nextCart)
              ELSE [threw |-> FALSE, store |-> store]
      set2 == IF wishlistChanged
              THEN safeSet(set1.store, storage, "wishlist", nextWishlist)
              ELSE [threw |-> FALSE, store |-> set1.store]
  IN /\ pending
     /\ pending' = FALSE
     /\ cartItems' = nextCart
     /\ wishlistItems' = nextWishlist
     /\ store' = set2.store
     /\ crashed' = (crashed \/ set1.threw \/ set2.threw)
     \* a fiber that rendered a changed state leaves its lanes on the alternate;
     \* the cart provider, when it had no update, is cloned clean on the way down
     /\ cartLanes' = cartChanged
     \* the wishlist provider without an update is cloned only if something below
     \* it re-renders; with updates that all returned prev the render bails out
     /\ IF wishlistQueued
        THEN wishlistLanes' = wishlistChanged
        ELSE wishlistLanes' \in {wishlistLanes, FALSE}
     /\ UNCHANGED << uiVars, heldAtStart, cartCalls, wishlistCalls, storage, closed, addOnly, addCount >>

\* a render caused by a state update elsewhere in the tree (router, toaster,
\* navbar): both providers are cloned and their leftover lanes are gone
treeRender ==
  /\ ~closed
  /\ ~pending
  /\ cartLanes \/ wishlistLanes
  /\ cartLanes' = FALSE
  /\ wishlistLanes' = FALSE
  /\ UNCHANGED << uiVars, heldAtStart, cartItems, wishlistItems, cartCalls, wishlistCalls, pending,
                  store, storage, closed, crashed, addOnly, addCount >>

(***************************************************************************)
(* The page's life: it is closed, the store outlives it, it starts again   *)
(***************************************************************************)
\* what an earlier session, another tab or an earlier release left in a key
StoredCartItems ==
  { << >>,
    << [id |-> 1, title |-> "course", price |-> Whole(10), quantity |-> Whole(1)] >>,
    << [id |-> 1, title |-> "course", price |-> Whole(10), quantity |-> Whole(1)],
       [id |-> 2, title |-> "course", price |-> Whole(20), quantity |-> Undef] >> }

StoredWishlistItems ==
  { << >>, << [id |-> 2, title |-> "course", price |-> Whole(20)] >> }

StoredShapes ==
  {"absent", "corrupt", "null", "zero", "number", "string", "object", "record", "array"}

\* what a key holds in the given shape
StoredAs(shape, items) ==
  IF shape \in {"record", "array"} THEN Stored(shape, items) ELSE Stored(shape, << >>)

\* the page is closed or reloaded: the providers' state is gone, the store stays
\* (cartItems and wishlistItems keep the items of the session's last render)
\* no session is running: nothing was read
NothingHeld == [cart |-> "absent", wishlist |-> "absent"]

close ==
  /\ ~closed
  /\ ~pending
  /\ closed' = TRUE
  /\ heldAtStart' = NothingHeld
  /\ cartCalls' = << >>
  /\ wishlistCalls' = << >>
  /\ cartLanes' = FALSE
  /\ wishlistLanes' = FALSE
  /\ addOnly' = FALSE
  /\ addCount' = noCount
  /\ UNCHANGED << uiVars, cartItems, wishlistItems, pending, store, storage, crashed >>

\* while the page is closed both keys are rewritten from outside, in one shape
storeWrittenElsewhere(shape, cart, wishlist) ==
  /\ closed
  /\ store' = [cart |-> StoredAs(shape, cart), wishlist |-> StoredAs(shape, wishlist)]
  /\ store' # store
  /\ UNCHANGED << uiVars, heldAtStart, cartItems, wishlistItems, cartCalls, wishlistCalls, pending,
                  cartLanes, wishlistLanes, storage, closed, crashed, addOnly,
                  addCount >>

\* the medium starts or stops taking writes or any access (quota, privacy mode)
storageChanges(status) ==
  /\ closed
  /\ storage # status
  /\ storage' = status
  /\ UNCHANGED << uiVars, heldAtStart, cartItems, wishlistItems, cartCalls, wishlistCalls, pending,
                  cartLanes, wishlistLanes, store, closed, crashed, addOnly,
                  addCount >>

\* application start: each provider's useState initializer loads its key, the
\* first render commits, and each persist effect writes the loaded items back
start ==
  LET gotCart == safeGet(store, storage, "cart")
      gotWishlist == safeGet(store, storage, "wishlist")
      loadedCart == initialItems(gotCart.value)
      loadedWishlist == initialItems(gotWishlist.value)
      set1 == safeSet(store, storage, "wishlist", loadedWishlist)
      set2 == safeSet(set1.store, storage, "cart", loadedCart)
  IN /\ closed
     /\ closed' = FALSE
     /\ cartItems' = loadedCart
     /\ wishlistItems' = loadedWishlist
     /\ store' = set2.store
     /\ crashed' = (crashed \/ gotCart.threw \/ gotWishlist.threw
                            \/ set1.threw \/ set2.threw)
     /\ heldAtStart' = [cart |-> store.cart.shape, wishlist |-> store.wishlist.shape]
     /\ UNCHANGED << uiVars, cartCalls, wishlistCalls, pending, cartLanes, wishlistLanes,
                     storage, addOnly, addCount >>

(***************************************************************************)
(* The wishlist page: its handlers call both providers in one event        *)
(***************************************************************************)
\* variant: only the first call of the handler reaches the queue
addToCartCallsFirstOnly(courses) ==
  [i \in DOMAIN courses |->
     call("addToCart", courses[i].id, courses[i], Undef,
          IF i = 1 /\ ~cartLanes /\ ~HasId(cartItems, courses[i].id) THEN 1 ELSE 0,
          i = 1)]

\* the addToCart calls of one handler for the given courses, in order: only the
\* first can take the eager path, the others find an update in the queue
addToCartCalls(courses) ==
  [i \in DOMAIN courses |->
     call("addToCart", courses[i].id, courses[i], Undef,
          IF i = 1 /\ ~cartLanes /\ ~HasId(cartItems, courses[i].id) THEN 1 ELSE 0,
          TRUE)]

removeFromWishlistCalls(courses) ==
  [i \in DOMAIN courses |->
     call("removeFromWishlist", courses[i].id, NoProduct, Undef, 1, TRUE)]

\* one handler calls addToCart for each course, then removeFromWishlist for each
transfer(courses) ==
  /\ handlerStart
  /\ courses # << >>
  /\ withinMaxQty(processQueue(cartItems, addToCartCalls(courses), Len(courses)))
  /\ cartCalls' = addToCartCalls(courses)
  /\ wishlistCalls' = removeFromWishlistCalls(courses)
  /\ pending' = TRUE
  /\ cartLanes' = TRUE
  /\ wishlistLanes' = TRUE
  /\ addOnly' = FALSE
  /\ addCount' = noCount
  /\ UNCHANGED << uiVars, heldAtStart, cartItems, wishlistItems, store, storage, closed, crashed >>

\* handleMoveToCart(course), for a course the page lists
handleMoveToCart(course) ==
  /\ \E i \in DOMAIN wishlistItems : wishlistItems[i] = course
  /\ transfer(<< course >>)

\* "Add All to Cart", shown while the wishlist holds something
addAllToCart == transfer(wishlistItems)

(***************************************************************************)
(* The cart icon's panel: quantity buttons of a listed entry               *)
(***************************************************************************)
\* newQuantity < 1, a JavaScript comparison: false for NaN
lessThanOne(x) == x.k = "num" /\ x.v < Den

\* variant: the new quantity always goes to updateQuantity
handleQuantityChangeNoRemove(courseId, newQuantity) ==
  updateQuantity(courseId, newQuantity)

\* handleQuantityChange(courseId, newQuantity)
handleQuantityChange(courseId, newQuantity) ==
  IF lessThanOne(newQuantity)
  THEN handlerStart /\ removeFromCart(courseId)
  ELSE updateQuantity(courseId, newQuantity)

\* the "+" button of the i-th listed entry
pressPlus(i) ==
  /\ i \in DOMAIN cartItems
  /\ OrZero(Number(cartItems[i].quantity)).v < MaxQty * Den
  /\ handleQuantityChange(cartItems[i].id,
                          Plus(OrZero(Number(cartItems[i].quantity)), Whole(1)))

\* the "-" button of the i-th listed entry
pressMinus(i) ==
  /\ i \in DOMAIN cartItems
  /\ handleQuantityChange(cartItems[i].id,
                          Plus(OrZero(Number(cartItems[i].quantity)), Whole(0 - 1)))

(***************************************************************************)
(* Navbar: the cart panel and the mobile menu both set the body's overflow *)
(* style in an effect; the mock session lives under two localStorage keys. *)
(* A handler, the render it causes and the effects of that render are one  *)
(* step.                                                                   *)
(***************************************************************************)
\* document.body.style.overflow after the effects of a render that takes the
\* panels to (cart, mobile): the cleanups run first (CartPanelInner's, then the
\* menu effect's), then the new effects in the same order; CartPanelInner keeps
\* the style it found in `prev`
effects(nb, cart, mobile) ==
  LET cartCloses == nb.cartOpen /\ ~cart
      cartOpens == ~nb.cartOpen /\ cart
      menuChanges == nb.mobileOpen # mobile
      restored == IF cartCloses THEN nb.prev ELSE nb.overflow
      cleaned == IF menuChanges THEN "" ELSE restored
      locked == IF cartOpens THEN "hidden" ELSE cleaned
  IN [nb EXCEPT !.cartOpen = cart,
                !.mobileOpen = mobile,
                !.prev = IF cartOpens THEN cleaned ELSE nb.prev,
                !.overflow = IF menuChanges
                             THEN (IF mobile THEN "hidden" ELSE "")
                             ELSE locked,
                !.event = "panels"]

navbarStep(nb) ==
  /\ ~closed /\ ~pending
  /\ navbar' = nb
  /\ UNCHANGED << hook, other, heldAtStart, cartItems, wishlistItems, cartCalls,
                  wishlistCalls, pending, cartLanes, wishlistLanes, store, storage,
                  closed, crashed, addOnly, addCount >>

\* the navbar's cart button: setCartOpen((v) => !v)
toggleCart ==
  /\ navbarStep(effects(navbar, ~navbar.cartOpen, navbar.mobileOpen))
  /\ UNCHANGED authStore

\* the panel's onClose (Escape, a press outside the panel)
closeCartPanel ==
  /\ navbar.cartOpen
  /\ navbarStep(effects(navbar, FALSE, navbar.mobileOpen))
  /\ UNCHANGED authStore

\* the burger button: setMobileOpen((v) => !v)
toggleMobile ==
  /\ navbarStep(effects(navbar, navbar.cartOpen, ~navbar.mobileOpen))
  /\ UNCHANGED authStore

\* onNavigate: every panel and menu is closed
onNavigate ==
  /\ navbar.cartOpen \/ navbar.mobileOpen
  /\ navbarStep(effects(navbar, FALSE, FALSE))
  /\ UNCHANGED authStore

\* what the key "user" can hold: nothing, the empty text, text that is not
\* JSON, the JSON null, an object without name, email and id, a user record
UserValues == {"absent", "empty", "corrupt", "null", "anonymous", "user"}

\* what the key "isAuthenticated" can hold
FlagValues == {"absent", "true", "false"}

NoSession == [user |-> "absent", isAuthenticated |-> "absent"]

\* variant: the user record is checked whatever the flag says
loadAuthAnyFlag(st) ==
  IF st.user \in {"absent", "empty"}
  THEN [store |-> st, isAuthenticated |-> FALSE]
  ELSE IF st.user = "user" /\ st.isAuthenticated = "true"
  THEN [store |-> st, isAuthenticated |-> TRUE]
  ELSE [store |-> NoSession, isAuthenticated |-> FALSE]

\* the navbar's mount effect on the two keys: what it leaves in the store and
\* in its state (useState(false) before it); `loaded` remembers what it read
loadAuth(st) ==
  IF st.isAuthenticated = "true" /\ st.user \notin {"absent", "empty"}
  THEN IF st.user = "corrupt"
       THEN [store |-> NoSession, isAuthenticated |-> FALSE]
       ELSE IF st.user = "user"
       THEN [store |-> st, isAuthenticated |-> TRUE]
       ELSE [store |-> NoSession, isAuthenticated |-> FALSE]
  ELSE [store |-> st, isAuthenticated |-> FALSE]

NavbarInit ==
  [cartOpen |-> FALSE, mobileOpen |-> FALSE, overflow |-> "", prev |-> "",
   isAuthenticated |-> FALSE, loaded |-> NoSession, event |-> "mount"]

\* the page is loaded again: the navbar mounts with everything closed and its
\* mount effect reads the session keys
navbarMounts ==
  /\ storage = "ok"
  /\ navbarStep([NavbarInit EXCEPT !.isAuthenticated = loadAuth(authStore).isAuthenticated,
                                   !.loaded = authStore])
  /\ authStore' = loadAuth(authStore).store

\* handleLogout: both keys removed, state reset, mobile menu closed
handleLogout ==
  /\ storage = "ok"
  /\ navbar.isAuthenticated
  /\ navbarStep([effects(navbar, navbar.cartOpen, FALSE)
                   EXCEPT !.isAuthenticated = FALSE, !.event = "logout"])
  /\ authStore' = NoSession

\* handleAuthSuccess(user) of the login / register page: both keys written; the
\* navbar's own state is what its mount effect found
handleAuthSuccess ==
  /\ storage = "ok"
  /\ navbarStep([navbar EXCEPT !.event = "login"])
  /\ authStore' = [user |-> "user", isAuthenticated |-> "true"]

\* the two keys are rewritten from outside the running page
authWrittenElsewhere(user, flag) ==
  /\ authStore' = [user |-> user, isAuthenticated |-> flag]
  /\ authStore' # authStore
  /\ navbarStep([navbar EXCEPT !.event = "written"])

(***************************************************************************)
(* Consumers: a component reaches a provider's value through its hook      *)
(***************************************************************************)
CartOperations ==
  {"items", "addToCart", "removeFromCart", "updateQuantity", "clearCart",
   "getTotalItems", "getTotalPrice", "isInCart"}

WishlistOperations ==
  {"items", "addToWishlist", "removeFromWishlist", "getTotalItems", "isInWishlist"}

\* createContext(null): the value a component finds when no provider encloses it
NullContext == [null |-> TRUE, items |-> << >>, keys |-> {}]

\* the value object a provider passes down at its last render
providerValue(provider) ==
  IF provider = "CartProvider"
  THEN [null |-> FALSE, items |-> cartItems, keys |-> CartOperations]
  ELSE [null |-> FALSE, items |-> wishlistItems, keys |-> WishlistOperations]

\* useContext(Context) in a component enclosed by the given providers
useContext(provider, enclosing) ==
  IF provider \in enclosing THEN providerValue(provider) ELSE NullContext

\* where a component can be mounted: under both providers (the application),
\* under one of them, or under none
Placements == SUBSET {"CartProvider", "WishlistProvider"}

NoError == [message |-> "", provider |-> ""]

\* variant: the context value is returned as found
useCartUnchecked(ctx) == [threw |-> FALSE, error |-> NoError, value |-> ctx]

\* useCart(), on what useContext(CartContext) gave
useCart(ctx) ==
  IF ctx.null
  THEN [threw |-> TRUE,
        error |-> [message |-> "useCart must be used within a CartProvider",
                   provider |-> "CartProvider"],
        value |-> NullContext]
  ELSE [threw |-> FALSE, error |-> NoError, value |-> ctx]

\* useWishlist(), on what useContext(WishlistContext) gave
useWishlist(ctx) ==
  IF ctx.null
  THEN [threw |-> TRUE,
        error |-> [message |-> "useWishlist must be used within a WishlistProvider",
                   provider |-> "WishlistProvider"],
        value |-> NullContext]
  ELSE [threw |-> FALSE, error |-> NoError, value |-> ctx]

NoHookCall == [name |-> "", enclosing |-> {}, result |-> useCartUnchecked(NullContext)]

\* a component mounted under the given providers renders and calls useCart()
componentUsesCart(enclosing) ==
  /\ ~closed /\ ~pending
  /\ hook' = [name |-> "useCart", enclosing |-> enclosing,
               result |-> useCart(useContext("CartProvider", enclosing))]
  /\ UNCHANGED << other, navbar, authStore, heldAtStart >>
  /\ UNCHANGED << cartItems, wishlistItems, cartCalls, wishlistCalls, pending,
                  cartLanes, wishlistLanes, store, storage, closed, crashed,
                  addOnly, addCount >>

\* a component mounted under the given providers renders and calls useWishlist()
componentUsesWishlist(enclosing) ==
  /\ ~closed /\ ~pending
  /\ hook' = [name |-> "useWishlist", enclosing |-> enclosing,
               result |-> useWishlist(useContext("WishlistProvider", enclosing))]
  /\ UNCHANGED << other, navbar, authStore, heldAtStart >>
  /\ UNCHANGED << cartItems, wishlistItems, cartCalls, wishlistCalls, pending,
                  cartLanes, wishlistLanes, store, storage, closed, crashed,
                  addOnly, addCount >>

(***************************************************************************)
(* A second instance of the application (another tab) on the same store.   *)
(* It runs the same providers; a handler of it and the render and persist  *)
(* effect that follow are taken as one step.                               *)
(***************************************************************************)
\* variant: the write keeps the entries the key holds for other ids
safeSetMerging(st, key, items) ==
  LET held == st[key].items
      kept == filter(held, { i \in DOMAIN held : ~HasId(items, held[i].id) }, 1)
  IN safeSet(st, storage, key, kept \o items).store

\* the persist effect of the other instance
otherPersists(st, key, items) == safeSet(st, storage, key, items).store

\* the other instance changes its items of one key and persists them
otherSets(key, items) ==
  /\ ~pending
  /\ other' = [other EXCEPT ![key] = items]
  /\ store' = otherPersists(store, key, items)
  /\ UNCHANGED << hook, navbar, authStore, heldAtStart, cartItems, wishlistItems, cartCalls, wishlistCalls, pending,
                  cartLanes, wishlistLanes, storage, closed, crashed, addOnly,
                  addCount >>

otherAddToCart(product) ==
  /\ withinMaxQty(addToCartUpdater(other.cart, product))
  /\ otherSets("cart", addToCartUpdater(other.cart, product))

otherRemoveFromCart(id) == otherSets("cart", removeUpdater(other.cart, id))

\* addToWishlist of an id that is saved returns prev: no render, no write
otherAddToWishlist(product) ==
  /\ ~HasId(other.wishlist, product.id)
  /\ otherSets("wishlist", addToWishlistUpdater(other.wishlist, product))

\* the other instance is opened again: it loads both keys and writes them back
otherStarts ==
  LET loadedCart == initialItems(safeGet(store, storage, "cart").value)
      loadedWishlist == initialItems(safeGet(store, storage, "wishlist").value)
  IN /\ ~pending
     /\ other' = [cart |-> loadedCart, wishlist |-> loadedWishlist]
     /\ other' # other
     /\ store' = otherPersists(otherPersists(store, "wishlist", loadedWishlist),
                               "cart", loadedCart)
     /\ UNCHANGED << hook, navbar, authStore, heldAtStart, cartItems, wishlistItems, cartCalls, wishlistCalls,
                     pending, cartLanes, wishlistLanes, storage, closed, crashed,
                     addOnly, addCount >>

(***************************************************************************)
(* Specifications                                                          *)
(***************************************************************************)
\* application start on an empty store: both providers load [] and their
\* persist effects write it back
Init ==
  /\ cartItems = << >>
  /\ wishlistItems = << >>
  /\ cartCalls = << >>
  /\ wishlistCalls = << >>
  /\ pending = FALSE
  /\ cartLanes = FALSE
  /\ wishlistLanes = FALSE
  /\ store = safeSet(safeSet([cart |-> Absent, wishlist |-> Absent], "ok",
                             "wishlist", << >>).store,
                     "ok", "cart", << >>).store
  /\ storage = "ok"
  /\ closed = FALSE
  /\ crashed = FALSE
  /\ hook = NoHookCall
  /\ other = [cart |-> << >>, wishlist |-> << >>]
  /\ navbar = NavbarInit
  /\ authStore = NoSession
  /\ heldAtStart = NothingHeld
  /\ addOnly = TRUE
  /\ addCount = noCount

\* the application: both containers, catalog courses, integer quantities
Next ==
  \/ \E p \in Catalog : addToCart(p)
  \/ \E id \in Ids : removeFromCart(id)
  \/ \E id \in Ids, q \in IntQuantities : updateQuantity(id, q)
  \/ clearCart
  \/ \E p \in Catalog : addToWishlist(p)
  \/ \E id \in Ids : removeFromWishlist(id)
  \/ render
  \/ treeRender

Spec == Init /\ [][Next]_vars

\* the cart container alone, called with any payload and any quantity
NextCart ==
  \/ \E p \in Payloads : addToCart(p)
  \/ \E id \in Ids : removeFromCart(id)
  \/ \E id \in Ids, q \in AnyQuantities : updateQuantity(id, q)
  \/ clearCart
  \/ render
  \/ treeRender

SpecCart == Init /\ [][NextCart]_vars

\* the course whose page is open
OpenCourse == CHOOSE p \in Catalog : p.id = 1

\* what a caller can pass for that course
OpenCoursePayloads == { p \in Payloads : p.id = OpenCourse.id }

\* the application over its sessions, on one course's page and the cart icon:
\* one call per handler, a store that can fail and that can hold what this
\* release did not write
NextStore ==
  \/ \E p \in OpenCoursePayloads : handlerStart /\ addToCart(p)
  \/ \E id \in Ids : handlerStart /\ removeFromCart(id)
  \/ \E id \in Ids, q \in IntQuantities \cup {Undef} : updateQuantity(id, q)
  \/ handlerStart /\ addToWishlist(OpenCourse)
  \/ handlerStart /\ removeFromWishlist(OpenCourse.id)
  \/ render
  \/ treeRender
  \/ close
  \/ \E shape \in StoredShapes, cart \in StoredCartItems, wishlist \in StoredWishlistItems :
       storeWrittenElsewhere(shape, cart, wishlist)
  \/ \E status \in {"ok", "full", "blocked"} : storageChanges(status)
  \/ start

SpecStore == Init /\ [][NextStore]_vars

\* components calling the hooks, wherever they are mounted, between handlers
\* that change the providers' items
NextHooks ==
  \/ \E p \in Catalog : handlerStart /\ addToCart(p)
  \/ clearCart
  \/ \E p \in Catalog : handlerStart /\ addToWishlist(p)
  \/ render
  \/ treeRender
  \/ \E enclosing \in Placements : componentUsesCart(enclosing)
  \/ \E enclosing \in Placements : componentUsesWishlist(enclosing)

SpecHooks == Init /\ [][NextHooks]_vars

\* two instances of the application on one store, each with its own handlers
NextTabs ==
  \/ \E p \in Catalog : handlerStart /\ addToCart(p)
  \/ \E id \in Ids : handlerStart /\ removeFromCart(id)
  \/ handlerStart /\ addToWishlist(OpenCourse)
  \/ render
  \/ treeRender
  \/ \E p \in Catalog : otherAddToCart(p)
  \/ \E id \in Ids : otherRemoveFromCart(id)
  \/ otherAddToWishlist(OpenCourse)
  \/ otherStarts

SpecTabs == Init /\ [][NextTabs]_vars

\* the course pages and the wishlist page
NextPage ==
  \/ \E p \in Catalog : handlerStart /\ addToCart(p)
  \/ \E p \in Catalog : handlerStart /\ addToWishlist(p)
  \/ \E id \in Ids : handlerStart /\ removeFromWishlist(id)
  \/ \E course \in Catalog : handleMoveToCart(course)
  \/ addAllToCart
  \/ render
  \/ treeRender

SpecPage == Init /\ [][NextPage]_vars

\* the cart icon's panel over page loads: entries come from addToCart and from
\* the store, quantities change through the two buttons only
NextIcon ==
  \/ \E p \in Payloads : handlerStart /\ addToCart(p)
  \/ \E i \in 1..Cardinality(Ids) : pressPlus(i)
  \/ \E i \in 1..Cardinality(Ids) : pressMinus(i)
  \/ render
  \/ treeRender
  \/ close
  \/ \E shape \in StoredShapes, cart \in StoredCartItems, wishlist \in StoredWishlistItems :
       storeWrittenElsewhere(shape, cart, wishlist)
  \/ start

SpecIcon == Init /\ [][NextIcon]_vars

\* the navbar: its panels and its session
NextNavbar ==
  \/ toggleCart
  \/ closeCartPanel
  \/ toggleMobile
  \/ onNavigate
  \/ navbarMounts
  \/ handleLogout
  \/ handleAuthSuccess
  \/ \E user \in UserValues, flag \in FlagValues : authWrittenElsewhere(user, flag)

SpecNavbar == Init /\ [][NextNavbar]_vars

(***************************************************************************)
(* Properties                                                              *)
(***************************************************************************)
newEntry(product) ==
  [id |-> product.id, title |-> product.title, price |-> product.price,
   quantity |-> Whole(1)]

\* the step is a render that applies a handler's single cart call
rendersOneCartCall(op) ==
  /\ pending /\ ~pending'
  /\ Len(cartCalls) = 1
  /\ cartCalls[1].op = op

\* C1: in every cart state reachable from the empty cart by addToCart,
\* removeFromCart, updateQuantity and clearCart, no two entries share an id
C1_UniqueIds ==
  \A i, j \in DOMAIN cartItems : i # j => cartItems[i].id # cartItems[j].id

\* an id was added again after other operations, next to a second entry
C1_Witness ==
  /\ ~addOnly /\ ~pending
  /\ Len(cartItems) = 2
  /\ \E i \in DOMAIN cartItems : cartItems[i].quantity.v > Den

\* C2: addToCart(product) on an id in the cart raises that entry's quantity by
\* exactly 1 and keeps its other fields as first stored; on a new id it appends
\* the product's fields with quantity 1; no other entry changes
C2_AddToCartEffect ==
  [][ rendersOneCartCall("addToCart") =>
        LET p == cartCalls[1].product IN
        IF \E i \in DOMAIN cartItems : cartItems[i].id = p.id
        THEN /\ DOMAIN cartItems' = DOMAIN cartItems
             /\ \A i \in DOMAIN cartItems :
                  /\ cartItems'[i].id = cartItems[i].id
                  /\ cartItems'[i].title = cartItems[i].title
                  /\ cartItems'[i].price = cartItems[i].price
                  /\ cartItems'[i].quantity =
                       IF cartItems[i].id = p.id
                       THEN Num(cartItems[i].quantity.v + Den)
                       ELSE cartItems[i].quantity
        ELSE /\ Len(cartItems') = Len(cartItems) + 1
             /\ SubSeq(cartItems', 1, Len(cartItems)) = cartItems
             /\ cartItems'[Len(cartItems')] = newEntry(p)
    ]_vars

\* the stored "course" entry of id 1 went to quantity 2 by a call whose payload
\* carried other fields
C2_Witness ==
  /\ ~pending
  /\ Len(cartCalls) = 1
  /\ cartCalls[1].op = "addToCart"
  /\ cartCalls[1].product.title = "other"
  /\ \E i \in DOMAIN cartItems :
       /\ cartItems[i].id = cartCalls[1].id
       /\ cartItems[i].title = "course"
       /\ cartItems[i].quantity = Whole(2)

RECURSIVE sumCount(_)
sumCount(S) ==
  IF S = {} THEN 0
  ELSE LET i == CHOOSE x \in S : TRUE IN addCount[i] + sumCount(S \ {i})

\* C3: from the empty cart, once n addToCart calls (ids distinct or repeated,
\* also several per handler) have been applied, getTotalItems() is n and there
\* is one entry per distinct id added
C3_AddCallsCounted ==
  (addOnly /\ ~pending) =>
    /\ getTotalItems(cartItems) = Whole(sumCount(Ids))
    /\ Len(cartItems) = Cardinality({ i \in Ids : addCount[i] > 0 })

\* one handler added id 1 twice: total 2, one entry
C3_Witness ==
  /\ addOnly /\ ~pending
  /\ Len(cartCalls) = 2
  /\ cartCalls[1].id = 1 /\ cartCalls[2].id = 1
  /\ addCount[1] = 2 /\ addCount[2] = 0
  /\ getTotalItems(cartItems) = Whole(2)
  /\ Len(cartItems) = 1

\* price * quantity of one entry, a missing or non-numeric operand making it 0
lineTotal(item) ==
  IF item.price.k = "num" /\ item.quantity.k = "num"
  THEN (item.price.v * item.quantity.v) \div Den
  ELSE 0

RECURSIVE sumLines(_, _)
sumLines(items, S) ==
  IF S = {} THEN 0
  ELSE LET i == CHOOSE x \in S : TRUE IN lineTotal(items[i]) + sumLines(items, S \ {i})

\* C4: getTotalPrice() is the sum of price * quantity over the entries, a missing
\* or non-numeric price or quantity counting as zero; an item priced 10 added
\* twice gives 20
C4_TotalPrice ==
  /\ getTotalPrice(cartItems) = Num(sumLines(cartItems, DOMAIN cartItems))
  /\ (/\ addOnly /\ ~pending
      /\ addCount[1] = 2 /\ addCount[2] = 0
      /\ cartItems[1].price = Whole(10))
     => getTotalPrice(cartItems) = Whole(20)

\* an entry without a numeric price next to a priced entry of quantity 2
C4_Witness ==
  /\ Len(cartItems) = 2
  /\ \E i \in DOMAIN cartItems : cartItems[i].price.k # "num"
  /\ \E i \in DOMAIN cartItems :
       cartItems[i].price.k = "num" /\ cartItems[i].quantity = Whole(2)
  /\ getTotalPrice(cartItems).v > 0

\* C5: in every reachable cart state every quantity is a positive integer,
\* whatever numeric argument updateQuantity was given
C5_QuantityPositiveInteger ==
  \A i \in DOMAIN cartItems :
    /\ cartItems[i].quantity.k = "num"
    /\ cartItems[i].quantity.v > 0
    /\ cartItems[i].quantity.v % Den = 0

\* the i-th call of the running handler creates an entry when its update is applied
createsEntry(items, calls, i) ==
  ~HasId(processQueue(items, calls, i - 1), calls[i].id)

\* C6: an addToCart call emits one "added to cart" notification if and only if
\* it creates a new cart entry
C6_NotifiedIffCreated ==
  pending =>
    \A i \in DOMAIN cartCalls :
      cartCalls[i].op = "addToCart" =>
        (cartCalls[i].notified = 1 <=> createsEntry(cartItems, cartCalls, i))

RECURSIVE notifications(_, _)
notifications(calls, upto) ==
  IF upto = 0 THEN 0 ELSE notifications(calls, upto - 1) + calls[upto].notified

\* a handler's calls are all `op`, with distinct ids none of which is in items
addsOfNewIds(items, calls, op) ==
  /\ calls # << >>
  /\ \A i \in DOMAIN calls : calls[i].op = op /\ ~HasId(items, calls[i].id)
  /\ \A i, j \in DOMAIN calls : i # j => calls[i].id # calls[j].id

\* C7: k calls of addToCart (or addToWishlist) with k distinct new ids inside
\* one event handler emit exactly k "added" notifications
C7_BatchNotifiesEach ==
  pending =>
    /\ addsOfNewIds(cartItems, cartCalls, "addToCart")
         => notifications(cartCalls, Len(cartCalls)) = Len(cartCalls)
    /\ addsOfNewIds(wishlistItems, wishlistCalls, "addToWishlist")
         => notifications(wishlistCalls, Len(wishlistCalls)) = Len(wishlistCalls)

\* what the consumer's isInCart / isInWishlist answer for the id of the
\* handler's latest add or remove call
containsAfterLastCall ==
  /\ cartCalls # << >> =>
       LET c == cartCalls[Len(cartCalls)] IN
       /\ c.op = "addToCart" => isInCart(c.id)
       /\ c.op = "removeFromCart" => ~isInCart(c.id)
  /\ wishlistCalls # << >> =>
       LET c == wishlistCalls[Len(wishlistCalls)] IN
       /\ c.op = "addToWishlist" => isInWishlist(c.id)
       /\ c.op = "removeFromWishlist" => ~isInWishlist(c.id)

\* C8 as stated: isInCart(id) / isInWishlist(id) is true immediately after the
\* add call and false immediately after a subsequent remove call, for the
\* consumer that issued them
C8_ContainsImmediately == containsAfterLastCall

\* C8 as amended: the same, once React has rendered the provider with the
\* handler's updates applied
C8_ContainsAfterRender == ~pending => containsAfterLastCall

\* a handler added id 1 to the cart and removed it again; after the render the
\* id is not in the cart, and the wishlist holds the id it was given
C8_Witness ==
  /\ ~pending
  /\ Len(cartCalls) = 2
  /\ cartCalls[1].op = "addToCart" /\ cartCalls[2].op = "removeFromCart"
  /\ cartCalls[1].id = cartCalls[2].id
  /\ ~isInCart(cartCalls[2].id)
  /\ \E id \in Ids : isInWishlist(id)

\* old without its entry of the given id (ids being unique), or old itself
withoutId(old, id) ==
  IF HasId(old, id)
  THEN LET k == CHOOSE i \in DOMAIN old : old[i].id = id
       IN SubSeq(old, 1, k - 1) \o SubSeq(old, k + 1, Len(old))
  ELSE old

\* C9: removeFromCart(id) / removeFromWishlist(id) delete the entry of that id
\* if there is one and change nothing otherwise; the other entries keep their
\* fields and their order
C9_RemoveEffect ==
  [][ /\ rendersOneCartCall("removeFromCart")
        => cartItems' = withoutId(cartItems, cartCalls[1].id)
      /\ (/\ pending /\ ~pending'
          /\ Len(wishlistCalls) = 1
          /\ wishlistCalls[1].op = "removeFromWishlist")
        => wishlistItems' = withoutId(wishlistItems, wishlistCalls[1].id)
    ]_vars

\* one handler removed id 1 from the cart and from the wishlist, both of which
\* keep their entry of id 2
C9_Witness ==
  /\ ~pending
  /\ Len(cartCalls) = 1 /\ cartCalls[1].op = "removeFromCart" /\ cartCalls[1].id = 1
  /\ Len(wishlistCalls) = 1 /\ wishlistCalls[1].op = "removeFromWishlist"
  /\ wishlistCalls[1].id = 1
  /\ Len(cartItems) = 1 /\ cartItems[1].id = 2
  /\ Len(wishlistItems) = 1 /\ wishlistItems[1].id = 2

\* C10: every removeFromCart / removeFromWishlist call emits exactly one
\* "removed" notification, also when the id is absent
C10_RemoveAlwaysNotifies ==
  /\ \A i \in DOMAIN cartCalls :
       cartCalls[i].op = "removeFromCart" => cartCalls[i].notified = 1
  /\ \A i \in DOMAIN wishlistCalls :
       wishlistCalls[i].op = "removeFromWishlist" => wishlistCalls[i].notified = 1

\* a handler removed an id from the empty cart and from the empty wishlist
C10_Witness ==
  /\ pending
  /\ cartItems = << >> /\ wishlistItems = << >>
  /\ Len(cartCalls) = 1 /\ cartCalls[1].op = "removeFromCart"
  /\ Len(wishlistCalls) = 1 /\ wishlistCalls[1].op = "removeFromWishlist"
  /\ cartCalls[1].notified = 1 /\ wishlistCalls[1].notified = 1

nonPositive(quantity) == quantity.k = "num" /\ quantity.v <= 0

\* C11: updateQuantity(id, q) with q <= 0 leaves the cart that removeFromCart(id)
\* would leave: the id is gone and every other entry is still there
C11_NonPositiveActsAsRemove ==
  [][(rendersOneCartCall("updateQuantity") /\ nonPositive(cartCalls[1].quantity))
       => /\ cartItems' = removeUpdater(cartItems, cartCalls[1].id)
          /\ ~HasId(cartItems', cartCalls[1].id)]_vars

positive(quantity) == quantity.k = "num" /\ quantity.v > 0

\* C12: updateQuantity(id, q) with q > 0 sets the quantity of the entry of that
\* id to q and changes nothing else: its other fields, its position and every
\* other entry stay, a cart without the id is unchanged, and nothing is notified
C12_PositiveSetsQuantityOnly ==
  [][(rendersOneCartCall("updateQuantity") /\ positive(cartCalls[1].quantity))
       => /\ Len(cartItems') = Len(cartItems)
          /\ \A i \in DOMAIN cartItems :
               cartItems'[i] =
                 IF cartItems[i].id = cartCalls[1].id
                 THEN [cartItems[i] EXCEPT !.quantity = cartCalls[1].quantity]
                 ELSE cartItems[i]
          /\ cartCalls[1].notified = 0]_vars

\* C13: clearCart() leaves the cart empty whatever it held (no items, totals of
\* 0, isInCart false for every id) and notifies exactly once per call, also on
\* a cart that was already empty
C13_ClearCartEmpties ==
  [][rendersOneCartCall("clearCart")
       => /\ cartItems' = << >>
          /\ getTotalItems(cartItems') = Num(0)
          /\ getTotalPrice(cartItems') = Num(0)
          /\ \A id \in Ids : ~HasId(cartItems', id)
          /\ cartCalls[1].notified = 1]_vars

\* clearCart was called and rendered: one notification, an empty cart, and the
\* new [] counted as a state change
C13_Witness ==
  /\ ~pending
  /\ Len(cartCalls) = 1 /\ cartCalls[1].op = "clearCart"
  /\ cartCalls[1].notified = 1
  /\ cartItems = << >>
  /\ cartLanes

\* C14: addToWishlist called twice with the same id, on a wishlist without it,
\* stores exactly one entry (the first product record) and notifies exactly
\* once across the two calls
C14_AddTwiceOneEntryOneNotice ==
  ( /\ pending
    /\ Len(wishlistCalls) = 2
    /\ wishlistCalls[1].op = "addToWishlist"
    /\ wishlistCalls[2].op = "addToWishlist"
    /\ wishlistCalls[1].id = wishlistCalls[2].id
    /\ ~HasId(wishlistItems, wishlistCalls[1].id) )
  => LET after == processQueue(wishlistItems, wishlistCalls, 2)
         stored == { i \in DOMAIN after : after[i].id = wishlistCalls[1].id }
     IN /\ Cardinality(stored) = 1
        /\ \A i \in stored : after[i] = wishlistCalls[1].product
        /\ wishlistCalls[1].notified + wishlistCalls[2].notified = 1

\* C15: in every wishlist state reachable from the empty wishlist by
\* addToWishlist and removeFromWishlist no id appears twice, and the wishlist's
\* getTotalItems() is the number of distinct ids saved
C15_WishlistUniqueIds ==
  /\ \A i, j \in DOMAIN wishlistItems :
       i # j => wishlistItems[i].id # wishlistItems[j].id
  /\ wishlistTotalItems = Cardinality({ wishlistItems[i].id : i \in DOMAIN wishlistItems })

\* one handler added the same id twice, both updates went through the queue and
\* were rendered, next to another saved id
C15_Witness ==
  /\ ~pending
  /\ Len(wishlistCalls) = 2
  /\ \A i \in {1, 2} : wishlistCalls[i].op = "addToWishlist" /\ wishlistCalls[i].queued
  /\ wishlistCalls[1].id = wishlistCalls[2].id
  /\ Len(wishlistItems) = 2
  /\ wishlistItems[2].id = wishlistCalls[1].id

\* C16: whenever the application is running with no update left to render and
\* the store takes writes, the items stored under 'cart' are the cart's items
\* and the items stored under 'wishlist' are the wishlist's items
C16_PersistedEqualsMemory ==
  (~closed /\ ~pending /\ storage = "ok")
  => /\ store.cart = Stored("record", cartItems)
     /\ store.wishlist = Stored("record", wishlistItems)

\* a quantity change of an entry was rendered and persisted, next to a saved
\* wishlist entry
C16_Witness ==
  /\ ~closed /\ ~pending /\ storage = "ok"
  /\ Len(cartCalls) = 1 /\ cartCalls[1].op = "updateQuantity"
  /\ HasId(cartItems, cartCalls[1].id)
  /\ wishlistItems # << >>
  /\ store.cart.items = cartItems
  /\ store.wishlist.items = wishlistItems

\* the page has just started again: no handler has run in this session
justStarted ==
  ~closed /\ ~pending /\ ~addOnly /\ cartCalls = << >> /\ wishlistCalls = << >>

C18_LoaderMapsShapes ==
  [][(closed /\ ~closed' /\ storage # "blocked")
       => /\ cartItems' = IF store.cart.shape \in {"record", "array"}
                          THEN store.cart.items ELSE << >>
          /\ wishlistItems' = IF store.wishlist.shape \in {"record", "array"}
                              THEN store.wishlist.items ELSE << >>]_vars

\* a session started on bare top-level sequences left under both keys; the
\* medium took no write, so the keys still hold them
C18_Witness ==
  /\ justStarted
  /\ storage = "full"
  /\ store.cart.shape = "array" /\ Len(store.cart.items) = 2
  /\ cartItems = store.cart.items
  /\ store.wishlist.shape = "array" /\ Len(store.wishlist.items) = 1
  /\ wishlistItems = store.wishlist.items

\* the key cannot be read: it is absent, its text is not JSON, or the medium
\* throws on access
unreadable(key) == store[key].shape \in {"absent", "corrupt"} \/ storage = "blocked"

\* C19: safeGet never raises: for an absent key, an unparsable text or a medium
\* that throws on access it returns null and the container starts empty; no
\* exception ever leaves a provider
C19_SafeGetNeverRaises ==
  [][(closed /\ ~closed')
       => /\ unreadable("cart")
             => safeGet(store, storage, "cart") = Returned(JsNull) /\ cartItems' = << >>
          /\ unreadable("wishlist")
             => safeGet(store, storage, "wishlist") = Returned(JsNull)
                /\ wishlistItems' = << >>
          /\ ~crashed']_vars

\* a session started on a medium that throws on access while both keys hold
\* saved entries: both containers are empty and nothing escaped
C19_Witness ==
  /\ justStarted
  /\ storage = "blocked"
  /\ store.cart.shape = "record" /\ store.cart.items # << >>
  /\ store.wishlist.shape = "record" /\ store.wishlist.items # << >>
  /\ cartItems = << >> /\ wishlistItems = << >>
  /\ ~crashed

\* C20: a store write that fails is swallowed: the render gives the items it
\* gives with a working store, the key keeps its previous value, nothing
\* escapes, and the application goes on taking calls
C20_WriteFailureSwallowed ==
  [][(storage # "ok")
       => /\ (pending /\ ~pending')
             => /\ cartItems' = processQueue(cartItems, cartCalls, Len(cartCalls))
                /\ wishlistItems' =
                     processQueue(wishlistItems, wishlistCalls, Len(wishlistCalls))
                /\ store' = store
                /\ ~crashed' /\ handlerStart'
          /\ (closed /\ ~closed') => (store' = store /\ ~crashed' /\ handlerStart')]_vars

\* in a session whose writes all failed two calls in a row were rendered: the
\* entry went to quantity 2 while the key still holds the empty cart
C20_Witness ==
  /\ ~closed /\ ~pending /\ ~crashed
  /\ storage = "full"
  /\ store.cart = Stored("record", << >>)
  /\ Len(cartCalls) = 1 /\ cartCalls[1].op = "addToCart"
  /\ \E i \in DOMAIN cartItems :
       cartItems[i].quantity.k = "num" /\ cartItems[i].quantity.v = 2 * Den

\* C21: useCart() and useWishlist() called with no enclosing provider of their
\* own raise an error naming the missing provider, and never hand out an empty
\* value; under their provider they return its full set of operations
C21_HooksRaiseOutsideProvider ==
  /\ hook.name = "useCart" =>
       IF "CartProvider" \in hook.enclosing
       THEN ~hook.result.threw /\ ~hook.result.value.null
            /\ hook.result.value.keys = CartOperations
       ELSE hook.result.threw /\ hook.result.error.provider = "CartProvider"
  /\ hook.name = "useWishlist" =>
       IF "WishlistProvider" \in hook.enclosing
       THEN ~hook.result.threw /\ ~hook.result.value.null
            /\ hook.result.value.keys = WishlistOperations
       ELSE hook.result.threw /\ hook.result.error.provider = "WishlistProvider"

\* a component under the WishlistProvider alone called useCart() while the
\* application's cart held an entry
C21_Witness ==
  /\ hook.name = "useCart"
  /\ hook.enclosing = {"WishlistProvider"}
  /\ hook.result.threw
  /\ cartItems # << >>

\* C22: with two instances on one store, what a key holds is always the whole
\* snapshot of one instance's items, the one that wrote last, never a merge;
\* the instances' items may differ and neither instance fails
C22_LastWriteWins ==
  /\ store.cart \in { Stored("record", cartItems), Stored("record", other.cart) }
  /\ store.wishlist \in { Stored("record", wishlistItems), Stored("record", other.wishlist) }
  /\ ~crashed

\* this instance added and persisted an entry, then the other instance wrote:
\* the entry is in this instance's cart and not under the key
C22_Witness ==
  /\ ~pending
  /\ Len(cartCalls) = 1 /\ cartCalls[1].op = "addToCart"
  /\ HasId(cartItems, cartCalls[1].id)
  /\ ~HasId(store.cart.items, cartCalls[1].id)
  /\ store.cart = Stored("record", other.cart)
  /\ other.cart # << >>

\* the entries of new whose id was in old come in the order they had in old
orderKept(old, new) ==
  \A i, j \in DOMAIN new :
    (i < j /\ HasId(old, new[i].id) /\ HasId(old, new[j].id))
      => findIndex(old, new[i].id) < findIndex(old, new[j].id)

\* C23: cart insertion order is preserved: a new entry goes to the end, and
\* addToCart on an id in the cart, updateQuantity and removeFromCart leave the
\* remaining entries in the order they had
C23_InsertionOrderKept ==
  [][(pending /\ ~pending' /\ Len(cartCalls) = 1)
       => /\ orderKept(cartItems, cartItems')
          /\ \A i \in DOMAIN cartItems' :
               ~HasId(cartItems, cartItems'[i].id)
                 => i = Len(cartItems') /\ cartCalls[1].op = "addToCart"]_vars

\* addToCart on the first of two entries was rendered: it was incremented where
\* it stood
C23_Witness ==
  /\ ~pending
  /\ Len(cartCalls) = 1 /\ cartCalls[1].op = "addToCart"
  /\ Len(cartItems) = 2
  /\ cartItems[1].id = cartCalls[1].id
  /\ cartItems[1].quantity.v > Den

quantityOf(items, id) ==
  IF HasId(items, id) THEN items[findIndex(items, id)].quantity ELSE Whole(0)

\* the handler whose calls are rendered was "Add All to Cart" on the wishlist
rendersAddAll ==
  /\ pending /\ ~pending'
  /\ wishlistItems # << >>
  /\ Len(cartCalls) = Len(wishlistItems) /\ Len(wishlistCalls) = Len(wishlistItems)
  /\ \A i \in DOMAIN wishlistItems :
       /\ cartCalls[i].op = "addToCart" /\ cartCalls[i].product = wishlistItems[i]
       /\ wishlistCalls[i].op = "removeFromWishlist"
       /\ wishlistCalls[i].id = wishlistItems[i].id

\* the handler whose calls are rendered moved one listed course to the cart
rendersMoveToCart ==
  /\ pending /\ ~pending'
  /\ Len(cartCalls) = 1 /\ Len(wishlistCalls) = 1
  /\ cartCalls[1].op = "addToCart"
  /\ wishlistCalls[1].op = "removeFromWishlist"
  /\ wishlistCalls[1].id = cartCalls[1].id
  /\ HasId(wishlistItems, cartCalls[1].id)

\* C24: after "Add All to Cart" the wishlist is empty and each of its items is in
\* the cart with its quantity 1 higher than before (1 if it was not there);
\* after one "move to cart" that item is in the cart and out of the wishlist,
\* and the other wishlist items remain
C24_WishlistTransfers ==
  [][ /\ rendersAddAll
        => /\ wishlistItems' = << >>
           /\ \A i \in DOMAIN wishlistItems :
                /\ HasId(cartItems', wishlistItems[i].id)
                /\ quantityOf(cartItems', wishlistItems[i].id)
                     = Plus(quantityOf(cartItems, wishlistItems[i].id), Whole(1))
      /\ rendersMoveToCart
        => /\ HasId(cartItems', cartCalls[1].id)
           /\ quantityOf(cartItems', cartCalls[1].id)
                = Plus(quantityOf(cartItems, cartCalls[1].id), Whole(1))
           /\ wishlistItems' = withoutId(wishlistItems, cartCalls[1].id)
           /\ ~HasId(wishlistItems', cartCalls[1].id)
    ]_vars

\* "Add All to Cart" on a wishlist of two was rendered: the wishlist is empty and
\* the cart holds both, one of them for the second time
C24_Witness ==
  /\ ~pending
  /\ Len(cartCalls) = 2 /\ Len(wishlistCalls) = 2
  /\ \A i \in {1, 2} : wishlistCalls[i].op = "removeFromWishlist"
  /\ wishlistItems = << >>
  /\ Len(cartItems) = 2
  /\ \E i \in {1, 2} : cartItems[i].quantity.v > Den

\* the quantity the panel computes with for the entry of an id: Number(q) || 0
shownQuantity(items, id) ==
  IF HasId(items, id) THEN OrZero(Number(items[findIndex(items, id)].quantity))
  ELSE Whole(0)

\* C25: the cart icon's "+" raises the entry's quantity by exactly 1 and "-" on
\* a quantity above 1 lowers it by exactly 1, both without a notification; "-"
\* on a quantity of 1 removes the entry through removeFromCart with one
\* notification; no press leaves the entry with a quantity of 0
C25_QuantityButtons ==
  [][(pending /\ ~pending' /\ Len(cartCalls) = 1 /\ cartCalls[1].op # "addToCart")
       => LET id == cartCalls[1].id
              old == shownQuantity(cartItems, id)
              new == shownQuantity(cartItems', id)
          IN /\ HasId(cartItems, id)
             /\ cartCalls[1].op = "updateQuantity"
                  => /\ cartCalls[1].notified = 0
                     /\ HasId(cartItems', id)
                     /\ findIndex(cartItems', id) <= findIndex(cartItems, id)
                     /\ new = cartCalls[1].quantity
                     /\ new \in { Plus(old, Whole(1)), Plus(old, Whole(0 - 1)) }
                     /\ new = Plus(old, Whole(0 - 1)) => old.v > Den
                     /\ new.v >= Den
             /\ cartCalls[1].op = "removeFromCart"
                  => /\ cartCalls[1].notified = 1
                     /\ old.v <= Den
                     /\ ~HasId(cartItems', id)]_vars

\* "-" was pressed on an entry of quantity 2 and rendered: the entry shows 1
C25_Witness ==
  /\ ~pending
  /\ Len(cartCalls) = 1 /\ cartCalls[1].op = "updateQuantity"
  /\ cartCalls[1].quantity = Whole(1)
  /\ HasId(cartItems, cartCalls[1].id)
  /\ shownQuantity(cartItems, cartCalls[1].id) = Whole(1)
  /\ Len(cartItems) = 2

\* C26: the cart and the wishlist are independent: a handler of cart calls only
\* leaves the wishlist's items and the record under 'wishlist' as they are, when
\* it runs and when it is rendered, and a handler of wishlist calls only leaves
\* the cart's items and the record under 'cart' as they are
C26_ContainersIndependent ==
  [][ /\ (pending' /\ wishlistCalls' = << >>)
         \/ (pending /\ ~pending' /\ wishlistCalls = << >>)
        => wishlistItems' = wishlistItems /\ store'.wishlist = store.wishlist
      /\ (pending' /\ cartCalls' = << >>)
         \/ (pending /\ ~pending' /\ cartCalls = << >>)
        => cartItems' = cartItems /\ store'.cart = store.cart
    ]_vars

\* a handler of two cart calls was rendered next to a saved wishlist entry, which
\* is still there and still under its key
C26_Witness ==
  /\ ~pending
  /\ Len(cartCalls) = 2 /\ wishlistCalls = << >>
  /\ cartItems # << >>
  /\ wishlistItems # << >>
  /\ store.wishlist = Stored("record", wishlistItems)
  /\ store.cart = Stored("record", cartItems)

\* C27: page scrolling is locked (the body's overflow is "hidden") whenever the
\* cart panel or the mobile menu is open, and unlocked once both are closed,
\* after any interleaving of opening and closing the two.
C27_ScrollLock ==
  (navbar.overflow = "hidden") <=> (navbar.cartOpen \/ navbar.mobileOpen)

\* steps of the navbar, told apart by what they leave in `event`
mounts == navbar'.event = "mount"
loggedOut == navbar'.event = "logout"
loggedIn == navbar'.event = "login"
BadUsers == {"corrupt", "null", "anonymous"}

writtenBack(held) ==
  Stored("record", IF held.shape \in {"record", "array"} THEN held.items ELSE << >>)

\* C29: at application start, before any handler runs, each provider writes what
\* it loaded back under its key in the shape {items, updatedAt} (on a medium
\* that takes the write): a bare top-level sequence is rewritten as a record with
\* the same items, a corrupt or unrecognised value by a record with no items.
C29_StartWritesBack ==
  [][(closed /\ ~closed' /\ storage = "ok")
       => /\ store'.cart = writtenBack(store.cart)
          /\ store'.wishlist = writtenBack(store.wishlist)
          /\ store'.cart.items = cartItems'
          /\ store'.wishlist.items = wishlistItems'
          /\ cartCalls' = << >> /\ wishlistCalls' = << >> /\ ~pending']_vars

\* a session has just started on a cart key that held a bare sequence of two
\* entries: the key now holds the record of the two entries, which are the
\* cart's items
C29_Witness ==
  /\ justStarted
  /\ storage = "ok"
  /\ heldAtStart.cart = "array"
  /\ store.cart.shape = "record" /\ Len(store.cart.items) = 2
  /\ cartItems = store.cart.items

\* the entry stays under updateQuantity(id, q): the entry of the id when q is a
\* positive number, any other entry when its own quantity is one
staysUnder(entry, id, q) ==
  IF entry.id = id THEN positive(q) ELSE positive(entry.quantity)

\* C30: updateQuantity(id, q) removes the entry of the id when q is not a
\* positive number and, whatever their id, the entries whose stored quantity is
\* missing, non-numeric or <= 0; the entries that stay keep their order and
\* their fields, the entry of the id with quantity q. On a cart whose entries
\* all have a positive quantity the entries of other ids are therefore as before.
C30_UpdateQuantityFilter ==
  [][rendersOneCartCall("updateQuantity")
       => LET id == cartCalls[1].id
              q == cartCalls[1].quantity
              stay == SelectSeq(cartItems, LAMBDA e : staysUnder(e, id, q))
              others(items) == SelectSeq(items, LAMBDA e : e.id # id)
          IN /\ Len(cartItems') = Len(stay)
             /\ \A i \in DOMAIN stay :
                  cartItems'[i] = IF stay[i].id = id
                                  THEN [stay[i] EXCEPT !.quantity = q]
                                  ELSE stay[i]
             /\ (\A i \in DOMAIN cartItems : positive(cartItems[i].quantity))
                  => others(cartItems') = others(cartItems)]_vars

\* a session loaded two entries, the second without a quantity, from a medium
\* that takes no write and so still holds them; updateQuantity(1, q) with a
\* positive q was rendered: entry 1 has quantity q and entry 2 is gone
C30_Witness ==
  /\ ~pending /\ ~closed
  /\ storage = "full"
  /\ heldAtStart.cart = "record"
  /\ Len(store.cart.items) = 2
  /\ store.cart.items[2].quantity = Undef
  /\ Len(cartCalls) = 1 /\ cartCalls[1].op = "updateQuantity"
  /\ cartCalls[1].id = 1 /\ cartCalls[1].quantity = Whole(MaxQty)
  /\ cartItems = << [store.cart.items[1] EXCEPT !.quantity = Whole(MaxQty)] >>

====
